---- MODULE Spec2Model ----
(***************************************************************************)
(* Workboard task manager: the request handlers of backend/main.py over    *)
(* the task_items table of backend/database.py (FastAPI, pydantic          *)
(* validators, SQLAlchemy ORM on SQLite).                                   *)
(*                                                                         *)
(* Encoding.  A Python Optional value is a set with at most one element:   *)
(* None is {} and a value x is {x}.  A str that the code inspects (title)  *)
(* is a sequence of one-character strings; notes and progress are TLA+     *)
(* strings; datetimes are integers.  A JSON request body is a function     *)
(* from the fields it carries to Optional values, so that a field that is  *)
(* absent and a field that is null are different bodies.                   *)
(***************************************************************************)
EXTENDS Integers, Sequences, FiniteSets, TLC

\* ---- bounds of the model ------------------------------------------------
MaxId == 2
MaxClock == 1
MaxLen == 2

\* ---- values ---------------------------------------------------------------
None == {}
Some(x) == {x}

VALID_STATUSES == {"pending", "in_progress", "completed"}

Fields == {"title", "notes", "progress", "deadline"}

Chars == {" ", "a"}

RECURSIVE Strings(_)
Strings(n) ==
  IF n = 0 THEN {<<>>}
  ELSE LET S == Strings(n - 1) IN S \cup {Append(s, c) : s \in {x \in S : Len(x) = n - 1}, c \in Chars}

Titles == Strings(MaxLen)

\* the ids a request may name: every id the table can hold and one it never holds
TaskIds == 1..(MaxId + 1)

\* ---- str.strip() ----------------------------------------------------------
RECURSIVE lstrip(_)
lstrip(s) ==
  IF s = <<>> THEN s
  ELSE IF Head(s) = " " THEN lstrip(Tail(s)) ELSE s

RECURSIVE rstrip(_)
rstrip(s) ==
  IF s = <<>> THEN s
  ELSE IF s[Len(s)] = " " THEN rstrip(SubSeq(s, 1, Len(s) - 1)) ELSE s

strip(s) == rstrip(lstrip(s))

\* ---- request bodies -------------------------------------------------------
\* A choice for one field of a body: Unset (the key is absent) or Given(v).
Unset == {}
Given(v) == {v}

Body(t, n, p, d) ==
  LET ch == [title |-> t, notes |-> n, progress |-> p, deadline |-> d]
  IN [f \in {g \in Fields : ch[g] # Unset} |-> CHOOSE v \in ch[f] : TRUE]

Bodies(TS, NS, PS, DS) == {Body(t, n, p, d) : t \in TS, n \in NS, p \in PS, d \in DS}

\* the field of a body as pydantic sees it before validation: None when absent
field(raw, f) == IF f \in DOMAIN raw THEN raw[f] ELSE None

\* ---- schemas ------------------------------------------------------------
\* title_must_exist returning v instead of v.strip()
title_must_exist_unstripped(v) ==
  IF v = <<>> \/ strip(v) = <<>>
  THEN [ok |-> FALSE, value |-> v]
  ELSE [ok |-> TRUE, value |-> v]

\* NewTask.title_must_exist: blank is a ValueError, otherwise the stripped title
title_must_exist(v) ==
  IF v = <<>> \/ strip(v) = <<>>
  THEN [ok |-> FALSE, value |-> v]
  ELSE [ok |-> TRUE, value |-> strip(v)]

\* NewTask.progress_must_be_valid: v is the Optional value handed to the validator
progress_must_be_valid(v) ==
  [ok |-> v # None /\ (CHOOSE s \in v : TRUE) \in VALID_STATUSES, value |-> v]

\* NewTask(**body).  title is a required str: absent or null is an error.
\* progress is Optional[str] = "pending": the default is not validated.  For an
\* explicit null, pydantic 1 skips the validator (it is neither pre nor always)
\* and keeps None, pydantic 2 runs it on None; the source pins no version, so
\* none_validated chooses between the two.
NewTask(raw, none_validated) ==
  LET t == IF "title" \in DOMAIN raw /\ raw["title"] # None
           THEN title_must_exist(CHOOSE s \in raw["title"] : TRUE)
           ELSE [ok |-> FALSE, value |-> <<>>]
      p == IF "progress" \notin DOMAIN raw THEN [ok |-> TRUE, value |-> Some("pending")]
           ELSE IF raw["progress"] = None /\ ~none_validated THEN [ok |-> TRUE, value |-> None]
           ELSE progress_must_be_valid(raw["progress"])
  IN [ok       |-> t.ok /\ p.ok,
      title    |-> Some(t.value),
      notes    |-> field(raw, "notes"),
      progress |-> p.value,
      deadline |-> field(raw, "deadline")]

\* check_progress that never raises
check_progress_never_raises(v) == [ok |-> TRUE, value |-> v]

\* EditTask.check_progress (pre=True, always=True): v is the Optional value,
\* None both when the key is absent and when it is null
check_progress(v) ==
  [ok |-> ~(v # None /\ (CHOOSE s \in v : TRUE) \notin VALID_STATUSES), value |-> v]

\* EditTask(**body): every field Optional, only progress has a validator
EditTask(raw) == [ok |-> check_progress(field(raw, "progress")).ok, fields_set |-> DOMAIN raw]

\* payload.dict() without exclude_unset: every field, None when the key is absent
dict_with_unset(raw) == [f \in Fields |-> field(raw, f)]

\* payload.dict(exclude_unset=True)
dict_exclude_unset(raw) == [f \in EditTask(raw).fields_set |-> raw[f]]

\* TaskOut (orm_mode): title: str and progress: str do not admit None
TaskOut(task) == [ok |-> task.title # None /\ task.progress # None, value |-> task]

\* ---- table task_items -----------------------------------------------------
\* INTEGER PRIMARY KEY on SQLite without AUTOINCREMENT: the rowid of a new row
\* is one more than the largest rowid in the table, 1 for an empty table
next_rowid(tbl) ==
  IF DOMAIN tbl = {} THEN 1
  ELSE (CHOOSE i \in DOMAIN tbl : \A j \in DOMAIN tbl : j <= i) + 1

\* TaskItem(...) with the column defaults applied at INSERT: progress
\* default="pending" when the attribute is None, added_on default=utcnow
TaskItem(rowid, p, utcnow) ==
  [id       |-> rowid,
   title    |-> p.title,
   notes    |-> p.notes,
   progress |-> IF p.progress = None THEN Some("pending") ELSE p.progress,
   added_on |-> utcnow,
   deadline |-> p.deadline]

\* db.add(task); db.commit()
db_add(tbl, task) == [i \in DOMAIN tbl \cup {task.id} |-> IF i = task.id THEN task ELSE tbl[i]]

\* for field, value in changes.items(): setattr(task, field, value)
setattrs(task, changes) ==
  [f \in DOMAIN task |-> IF f \in DOMAIN changes THEN changes[f] ELSE task[f]]

\* db.commit() of an UPDATE: title is nullable=False, the other columns are nullable
commit_update(tbl, task) ==
  IF task.title = None
  THEN [ok |-> FALSE, table |-> tbl]
  ELSE [ok |-> TRUE, table |-> [i \in DOMAIN tbl |-> IF i = task.id THEN task ELSE tbl[i]]]

\* a delete that is not filtered by id: it empties the table
db_delete_unfiltered(tbl, task) == [i \in {} |-> task]

\* db.delete(task); db.commit()
db_delete(tbl, task) == [i \in DOMAIN tbl \ {task.id} |-> tbl[i]]

\* db.query(TaskItem).filter(TaskItem.id == task_id).first()
fetch_task_or_404(tbl, task_id) ==
  IF task_id \in DOMAIN tbl THEN [status |-> 200, task |-> Some(tbl[task_id])]
  ELSE [status |-> 404, task |-> None]

\* db.query(TaskItem).order_by(TaskItem.added_on.desc()).all(): every row once,
\* added_on not increasing; SQL leaves the order of equal keys unspecified
order_by_added_on_desc(tbl) ==
  LET n == Cardinality(DOMAIN tbl)
  IN {[k \in 1..n |-> tbl[f[k]]] :
        f \in {g \in [1..n -> DOMAIN tbl] :
                 /\ \A a, b \in 1..n : a # b => g[a] # g[b]
                 /\ \A a, b \in 1..n : a < b => tbl[g[a]].added_on >= tbl[g[b]].added_on}}

\* ---- state -----------------------------------------------------------------
VARIABLES tasks, now, last, issued, created

vars == <<tasks, now, last, issued, created>>

\* tasks   : the rows of task_items, by id
\* now     : the latest reading of datetime.utcnow; a later reading is never
\*           smaller, and two readings may be equal
\* last    : the latest request and its response
\* issued  : history, the ids returned by every successful create so far
\* created : history, the ids created since the latest delete, in creation order

NoBody == <<>>

response(op, task_id, payload, status, body, items) ==
  [op |-> op, task_id |-> task_id, payload |-> payload,
   status |-> status, body |-> body, items |-> items]

Init ==
  /\ tasks = <<>>
  /\ now = 0
  /\ last = response("none", 0, NoBody, 0, None, <<>>)
  /\ issued = {}
  /\ created = <<>>

\* ---- routes ----------------------------------------------------------------
\* POST /api/tasks
create_task(raw) ==
  \E none_validated \in BOOLEAN :
    LET payload == NewTask(raw, none_validated) IN
    IF ~payload.ok
    THEN /\ last' = response("create", 0, raw, 422, None, <<>>)
         /\ UNCHANGED <<tasks, now, issued, created>>
    ELSE /\ next_rowid(tasks) <= MaxId
         /\ \E utcnow \in now..MaxClock :
              LET task == TaskItem(next_rowid(tasks), payload, utcnow) IN
              /\ tasks' = db_add(tasks, task)
              /\ now' = utcnow
              /\ issued' = issued \cup {task.id}
              /\ created' = Append(created, task.id)
              /\ last' = IF TaskOut(task).ok
                         THEN response("create", 0, raw, 201, Some(task), <<>>)
                         ELSE response("create", 0, raw, 500, None, <<>>)

\* GET /api/tasks
get_all_tasks ==
  /\ \E rows \in order_by_added_on_desc(tasks) :
       last' = IF \A k \in 1..Len(rows) : TaskOut(rows[k]).ok
               THEN response("list", 0, NoBody, 200, None, rows)
               ELSE response("list", 0, NoBody, 500, None, <<>>)
  /\ UNCHANGED <<tasks, now, issued, created>>

\* GET /api/tasks/{task_id}
get_single_task(task_id) ==
  LET r == fetch_task_or_404(tasks, task_id) IN
  /\ last' = IF r.status = 404 THEN response("get", task_id, NoBody, 404, None, <<>>)
             ELSE IF TaskOut(CHOOSE t \in r.task : TRUE).ok
             THEN response("get", task_id, NoBody, 200, r.task, <<>>)
             ELSE response("get", task_id, NoBody, 500, None, <<>>)
  /\ UNCHANGED <<tasks, now, issued, created>>

\* update_task validating the body itself, after the commit
update_task_validates_late(task_id, raw) ==
  LET r == fetch_task_or_404(tasks, task_id) IN
  IF r.status = 404
  THEN /\ last' = response("update", task_id, raw, IF EditTask(raw).ok THEN 404 ELSE 422, None, <<>>)
       /\ UNCHANGED <<tasks, now, issued, created>>
  ELSE LET task == setattrs(CHOOSE t \in r.task : TRUE, dict_exclude_unset(raw))
           c == commit_update(tasks, task)
       IN /\ tasks' = c.table
          /\ last' = IF ~EditTask(raw).ok
                     THEN response("update", task_id, raw, 422, None, <<>>)
                     ELSE IF c.ok /\ TaskOut(task).ok
                     THEN response("update", task_id, raw, 200, Some(task), <<>>)
                     ELSE response("update", task_id, raw, 500, None, <<>>)
          /\ UNCHANGED <<now, issued, created>>

\* PUT /api/tasks/{task_id}: the body is parsed into EditTask before the
\* function body runs, so a validation error is answered before the lookup
update_task(task_id, raw) ==
  LET r == fetch_task_or_404(tasks, task_id) IN
  IF ~EditTask(raw).ok
  THEN /\ last' = response("update", task_id, raw, 422, None, <<>>)
       /\ UNCHANGED <<tasks, now, issued, created>>
  ELSE IF r.status = 404
  THEN /\ last' = response("update", task_id, raw, 404, None, <<>>)
       /\ UNCHANGED <<tasks, now, issued, created>>
  ELSE LET task == setattrs(CHOOSE t \in r.task : TRUE, dict_exclude_unset(raw))
           c == commit_update(tasks, task)
       IN /\ tasks' = c.table
          /\ last' = IF c.ok /\ TaskOut(task).ok
                     THEN response("update", task_id, raw, 200, Some(task), <<>>)
                     ELSE response("update", task_id, raw, 500, None, <<>>)
          /\ UNCHANGED <<now, issued, created>>

\* DELETE /api/tasks/{task_id}
remove_task(task_id) ==
  LET r == fetch_task_or_404(tasks, task_id) IN
  IF r.status = 404
  THEN /\ last' = response("delete", task_id, NoBody, 404, None, <<>>)
       /\ UNCHANGED <<tasks, now, issued, created>>
  ELSE /\ tasks' = db_delete(tasks, CHOOSE t \in r.task : TRUE)
       /\ created' = <<>>
       /\ last' = response("delete", task_id, NoBody, 204, None, <<>>)
       /\ UNCHANGED <<now, issued>>

\* ---- request bodies drawn by the specifications ----------------------------
TitleAll == {Unset, Given(None)} \cup {Given(Some(s)) : s \in Titles}
ProgressAll == {Unset, Given(None)} \cup {Given(Some(s)) : s \in VALID_STATUSES \cup {"archived"}}
NotesAll == {Unset, Given(None), Given(Some("x"))}

\* Spec: bodies over all four fields, present or absent, few values each
CreateBodies ==
  Bodies({Given(Some(<<"a", " ">>))}, {Unset, Given(Some("x"))},
         {Unset, Given(Some("completed"))}, {Unset, Given(Some(1))})
EditBodies ==
  Bodies({Unset, Given(Some(<<"a", " ">>))}, NotesAll,
         {Unset, Given(Some("completed"))}, {Unset, Given(None)})

Next ==
  \/ \E raw \in CreateBodies : create_task(raw)
  \/ get_all_tasks
  \/ \E task_id \in TaskIds : get_single_task(task_id)
  \/ \E task_id \in TaskIds, raw \in EditBodies : update_task(task_id, raw)
  \/ \E task_id \in TaskIds : remove_task(task_id)

Spec == Init /\ [][Next]_vars

\* SpecTitle: bodies that carry at most a title, every title up to MaxLen
TitleBodies == Bodies(TitleAll, {Unset}, {Unset}, {Unset})

NextTitle ==
  \/ \E raw \in TitleBodies : create_task(raw)
  \/ get_all_tasks
  \/ \E task_id \in TaskIds : get_single_task(task_id)
  \/ \E task_id \in TaskIds, raw \in TitleBodies : update_task(task_id, raw)
  \/ \E task_id \in TaskIds : remove_task(task_id)

SpecTitle == Init /\ [][NextTitle]_vars

\* SpecProgress: every progress value, with a present, a blank and a missing title
ProgressCreateBodies == Bodies({Unset, Given(Some(<<" ">>)), Given(Some(<<"a">>))}, {Unset}, ProgressAll, {Unset})
ProgressEditBodies == Bodies({Unset}, {Unset}, ProgressAll, {Unset})

NextProgress ==
  \/ \E raw \in ProgressCreateBodies : create_task(raw)
  \/ get_all_tasks
  \/ \E task_id \in TaskIds : get_single_task(task_id)
  \/ \E task_id \in TaskIds, raw \in ProgressEditBodies : update_task(task_id, raw)
  \/ \E task_id \in TaskIds : remove_task(task_id)

SpecProgress == Init /\ [][NextProgress]_vars


\* ---- claims ----------------------------------------------------------------
ValidProgress == {Some(s) : s \in VALID_STATUSES}

\* C1: the progress of every stored task is one of pending, in_progress, completed
C1_ProgressAlwaysValid == \A i \in DOMAIN tasks : tasks[i].progress \in ValidProgress

\* C2: the title of every stored task is a string that is neither empty nor whitespace-only
C2_TitleNeverBlank ==
  \A i \in DOMAIN tasks :
    /\ tasks[i].title # None
    /\ \A s \in tasks[i].title : strip(s) # <<>>

\* C3: a successful create never returns an id that an earlier create returned
C3_IdNeverReissued ==
  [][(last'.op = "create" /\ last'.status = 201) =>
       \A rec \in last'.body : rec.id \notin issued]_vars

\* C4: a get, update or delete addressed to an id that is not in the store is
\* answered 404, whatever the body
C4_AbsentIdIsNotFound ==
  [][(last'.op \in {"get", "update", "delete"} /\ last'.task_id \notin DOMAIN tasks) =>
       last'.status = 404]_vars

\* a body whose progress key carries a string outside the enumerated values
BadProgress(raw) ==
  /\ "progress" \in DOMAIN raw
  /\ raw["progress"] # None
  /\ raw["progress"] \notin ValidProgress

\* C4 (amended): a get or delete of an absent id is answered 404; an update of an
\* absent id is answered 404 when its body passes validation and 422 when it
\* does not, because the body is validated before the id is looked up
C4_AbsentIdAmended ==
  [][(last'.op \in {"get", "update", "delete"} /\ last'.task_id \notin DOMAIN tasks) =>
       last'.status = IF last'.op = "update" /\ BadProgress(last'.payload) THEN 422 ELSE 404]_vars

C4_Witness ==
  /\ last.op = "update"
  /\ last.task_id \notin DOMAIN tasks
  /\ BadProgress(last.payload)
  /\ last.status = 422
  /\ DOMAIN tasks # {}

\* C5: an update answered 200 sets exactly the fields its body carries to the
\* values it carries, leaves the other fields of the task (id and added_on
\* always) and every other task as they were, and returns the stored task
C5_UpdateFrame ==
  [][(last'.op = "update" /\ last'.status = 200) =>
       LET i == last'.task_id
           p == last'.payload
       IN /\ i \in DOMAIN tasks
          /\ DOMAIN tasks' = DOMAIN tasks
          /\ \A f \in Fields : tasks'[i][f] = IF f \in DOMAIN p THEN p[f] ELSE tasks[i][f]
          /\ tasks'[i].id = tasks[i].id
          /\ tasks'[i].added_on = tasks[i].added_on
          /\ \A j \in DOMAIN tasks \ {i} : tasks'[j] = tasks[j]
          /\ last'.body = Some(tasks'[i])]_vars

C5_Witness ==
  /\ last.op = "update"
  /\ last.status = 200
  /\ DOMAIN last.payload = {"notes"}
  /\ last.payload["notes"] = Some("x")
  /\ Cardinality(DOMAIN tasks) >= 2
  /\ tasks[last.task_id].notes = Some("x")
  /\ tasks[last.task_id].deadline # None
  /\ tasks[last.task_id].progress = Some("completed")

\* C6: a create whose body carries a progress string outside the enumerated
\* values, and an update of a stored task whose body carries a progress that is
\* null or outside the enumerated values, is answered 422 and changes no record
C6_InvalidProgressRejected ==
  [][(\/ last'.op = "create" /\ BadProgress(last'.payload)
      \/ /\ last'.op = "update"
         /\ last'.task_id \in DOMAIN tasks
         /\ "progress" \in DOMAIN last'.payload
         /\ last'.payload["progress"] \notin ValidProgress) =>
       (last'.status = 422 /\ tasks' = tasks)]_vars

\* the place of the task with this id in a list response
pos(items, i) == CHOOSE k \in 1..Len(items) : items[k].id = i

\* C7: a list answered 200 holds every stored task exactly once, and tasks
\* created one after the other with no delete in between appear latest first
C7_ListNewestFirst ==
  (last.op = "list" /\ last.status = 200) =>
    /\ Len(last.items) = Cardinality(DOMAIN tasks)
    /\ \A i \in DOMAIN tasks : \E k \in 1..Len(last.items) : last.items[k] = tasks[i]
    /\ \A a, b \in 1..Len(created) :
         a < b => pos(last.items, created[b]) < pos(last.items, created[a])

\* C8: a create answered 201 stores and returns a record with the supplied title
\* stripped, the supplied progress (pending when the body carries none), the
\* supplied notes and deadline (None when absent); the store gains exactly that
\* record and keeps every other record as it was
C8_CreateRecord ==
  [][(last'.op = "create" /\ last'.status = 201) =>
       LET p == last'.payload IN
       \E rec \in last'.body :
         /\ "title" \in DOMAIN p
         /\ \E s \in p["title"] : rec.title = Some(strip(s))
         /\ rec.progress = IF "progress" \in DOMAIN p /\ p["progress"] \in ValidProgress
                           THEN p["progress"] ELSE Some("pending")
         /\ rec.notes = IF "notes" \in DOMAIN p THEN p["notes"] ELSE None
         /\ rec.deadline = IF "deadline" \in DOMAIN p THEN p["deadline"] ELSE None
         /\ rec.id \notin DOMAIN tasks
         /\ DOMAIN tasks' = DOMAIN tasks \cup {rec.id}
         /\ tasks'[rec.id] = rec
         /\ \A j \in DOMAIN tasks : tasks'[j] = tasks[j]]_vars

C8_Witness ==
  /\ last.op = "create"
  /\ last.status = 201
  /\ "progress" \notin DOMAIN last.payload
  /\ last.payload["title"] = Some(<<"a", " ">>)
  /\ "notes" \in DOMAIN last.payload
  /\ \E rec \in last.body :
       /\ rec.title = Some(<<"a">>)
       /\ rec.progress = Some("pending")
       /\ rec.notes = Some("x")
       /\ DOMAIN tasks = {1, rec.id}
       /\ rec.id = 2

\* C9: right after a delete answered 204, a get of that id is answered 404, no
\* list holds a record with that id, and every other task is stored unchanged
C9_DeleteRemoves ==
  [][(last'.op = "delete" /\ last'.status = 204) =>
       LET i == last'.task_id IN
       /\ i \in DOMAIN tasks
       /\ fetch_task_or_404(tasks', i).status = 404
       /\ \A rows \in order_by_added_on_desc(tasks') : \A k \in 1..Len(rows) : rows[k].id # i
       /\ \A j \in DOMAIN tasks \ {i} : j \in DOMAIN tasks' /\ tasks'[j] = tasks[j]]_vars

C9_Witness ==
  /\ last.op = "delete"
  /\ last.status = 204
  /\ last.task_id \notin DOMAIN tasks
  /\ DOMAIN tasks # {}

\* C10: a request answered 422 or 404 leaves the stored records as they were
C10_RejectedLeavesStore ==
  [][last'.status \in {422, 404} => tasks' = tasks]_vars

C10_Witness ==
  /\ last.op = "update"
  /\ last.status = 422
  /\ last.task_id \in DOMAIN tasks

====
